---------------------------- MODULE Spec2Model ----------------------------
(***************************************************************************)
(* pdf2qbo: the line-oriented statement parser of ofx/domain.py and the    *)
(* driver pdf2qbo.py.                                                      *)
(*                                                                         *)
(* A text line (a Python str) is a sequence of one-character strings, so   *)
(* that startswith, the `in` substring test, upper(), replace(), the two   *)
(* regular expressions and the [:32] slice are computed and not assumed.   *)
(* The buffer `lines` is a sequence of such lines.  One action models one  *)
(* pass through the body of the while loop of OfxBuilder.parse, including  *)
(* the sub-parser it calls.                                                *)
(***************************************************************************)
EXTENDS Integers, Sequences, FiniteSets, TLC

(***************************************************************************)
(* String literals of the source, and the text lines the inputs are built  *)
(* from.                                                                   *)
(***************************************************************************)
\* "Checks Paid"
HDR_CHECKS_PAID == <<"C","h","e","c","k","s"," ","P","a","i","d">>
\* "Electronic Payments"
HDR_ELECTRONIC == <<"E","l","e","c","t","r","o","n","i","c"," ","P","a","y","m","e","n","t","s">>
\* "Statement Period:"
HDR_PERIOD == <<"S","t","a","t","e","m","e","n","t"," ","P","e","r","i","o","d",":">>
\* "Primary Account #:"
HDR_ACCOUNT == <<"P","r","i","m","a","r","y"," ","A","c","c","o","u","n","t"," ","#",":">>
\* "Statement Balance as of"
HDR_BALANCE == <<"S","t","a","t","e","m","e","n","t"," ","B","a","l","a","n","c","e"," ","a","s"," ","o","f">>
\* "Beginning Balance"
HDR_BEGINNING == <<"B","e","g","i","n","n","i","n","g"," ","B","a","l","a","n","c","e">>
\* "Ending Balance"
HDR_ENDING == <<"E","n","d","i","n","g"," ","B","a","l","a","n","c","e">>
\* "DAILY BALANCE SUMMARY"
HDR_DAILY == <<"D","A","I","L","Y"," ","B","A","L","A","N","C","E"," ","S","U","M","M","A","R","Y">>
\* "INTEREST SUMMARY"
HDR_INTEREST == <<"I","N","T","E","R","E","S","T"," ","S","U","M","M","A","R","Y">>
\* "Check #"
CHECK_MARK == <<"C","h","e","c","k"," ","#">>
\* "Check # "
CHECK_LABEL == <<"C","h","e","c","k"," ","#"," ">>
\* "DEPOSIT"
KW_DEPOSIT == <<"D","E","P","O","S","I","T">>
\* "CREDIT"
KW_CREDIT == <<"C","R","E","D","I","T">>
\* "REFUND"
KW_REFUND == <<"R","E","F","U","N","D">>
\* "ELECTRONIC PMT"
KW_ELECTRONIC_PMT == <<"E","L","E","C","T","R","O","N","I","C"," ","P","M","T">>
\* "PAY"
KW_PAY == <<"P","A","Y">>
\* "WITHDRAW"
KW_WITHDRAW == <<"W","I","T","H","D","R","A","W">>
\* "DEBIT"
KW_DEBIT == <<"D","E","B","I","T">>
\* "FEE"
KW_FEE == <<"F","E","E">>
\* "CHARGE"
KW_CHARGE == <<"C","H","A","R","G","E">>
\* "PMT"
KW_PMT == <<"P","M","T">>
\* "OVERDRAFT PD"
KW_OVERDRAFT_PD == <<"O","V","E","R","D","R","A","F","T"," ","P","D">>

\* "Dec 15 2020-Jan 14 2021"
L_PeriodDec == <<"D","e","c"," ","1","5"," ","2","0","2","0","-","J","a","n"," ","1","4"," ","2","0","2","1">>
\* "Mar 01 2021-Mar 31 2021"
L_PeriodMar == <<"M","a","r"," ","0","1"," ","2","0","2","1","-","M","a","r"," ","3","1"," ","2","0","2","1">>
\* "4271234567"
L_Account == <<"4","2","7","1","2","3","4","5","6","7">>
\* "1,234.56"
L_Bal1 == <<"1",",","2","3","4",".","5","6">>
\* "2,345.67"
L_Bal2 == <<"2",",","3","4","5",".","6","7">>
\* "500.00"
L_Bal3 == <<"5","0","0",".","0","0">>
\* "750.25"
L_Bal4 == <<"7","5","0",".","2","5">>
\* "01/05"
L_Date0105 == <<"0","1","/","0","5">>
\* "01/06"
L_Date0106 == <<"0","1","/","0","6">>
\* "03/14"
L_Date0314 == <<"0","3","/","1","4">>
\* "12/20"
L_Date1220 == <<"1","2","/","2","0">>
\* "Check # 103"
L_CheckRef == <<"C","h","e","c","k"," ","#"," ","1","0","3">>
\* "some bank note"
L_BankNote == <<"s","o","m","e"," ","b","a","n","k"," ","n","o","t","e">>
\* "103"
L_CheckNo == <<"1","0","3">>
\* "120.00"
L_Amt120 == <<"1","2","0",".","0","0">>
\* "DEBIT CARD PURCHASE"
L_DebitCard == <<"D","E","B","I","T"," ","C","A","R","D"," ","P","U","R","C","H","A","S","E">>
\* "AMAZON.COM"
L_Amazon == <<"A","M","A","Z","O","N",".","C","O","M">>
\* "SEATTLE WA"
L_Seattle == <<"S","E","A","T","T","L","E"," ","W","A">>
\* "45.99"
L_Amt4599 == <<"4","5",".","9","9">>
\* "00.00"
L_AmtZero == <<"0","0",".","0","0">>
\* "Atm Fee Refund"
L_FeeRefund == <<"A","t","m"," ","F","e","e"," ","R","e","f","u","n","d">>
\* "5.00"
L_Amt5 == <<"5",".","0","0">>
\* "1,250.00"
L_Amt1250 == <<"1",",","2","5","0",".","0","0">>
\* "DEPOSIT PAYROLL ACME MANUFACTURING INC"
L_Payroll == <<"D","E","P","O","S","I","T"," ","P","A","Y","R","O","L","L"," ","A","C","M","E"," ","M","A","N","U","F","A","C","T","U","R","I","N","G"," ","I","N","C">>
\* "STATEMENT OF ACCOUNT"
L_Title == <<"S","T","A","T","E","M","E","N","T"," ","O","F"," ","A","C","C","O","U","N","T">>

(***************************************************************************)
(* Python values                                                           *)
(***************************************************************************)
\* None where a str is expected (never equal to a line: a line holds single characters)
None == <<"None">>
\* None where a datetime is expected
NoDate == [year |-> 0, month |-> 0, day |-> 0]
\* None where the int self.year is expected
NoYear == 0
\* None where trntype is expected
NoType == ""

Digits == <<"0","1","2","3","4","5","6","7","8","9">>
LowerCase == <<"a","b","c","d","e","f","g","h","i","j","k","l","m","n","o","p","q","r","s","t","u","v","w","x","y","z">>
UpperCase == <<"A","B","C","D","E","F","G","H","I","J","K","L","M","N","O","P","Q","R","S","T","U","V","W","X","Y","Z">>

\* \d of the regular expressions, on the ASCII text modelled here
IsDigit(c) == \E i \in 1..10 : Digits[i] = c
DigitVal(c) == (CHOOSE i \in 1..10 : Digits[i] = c) - 1
AllDigits(s) == \A i \in 1..Len(s) : IsDigit(s[i])

\* int() of a digit string
RECURSIVE ParseNat(_)
ParseNat(s) == IF s = <<>> THEN 0
               ELSE ParseNat(SubSeq(s, 1, Len(s) - 1)) * 10 + DigitVal(s[Len(s)])

\* str.upper(), one character
UpperChar(c) == IF \E i \in 1..26 : LowerCase[i] = c
                THEN UpperCase[CHOOSE i \in 1..26 : LowerCase[i] = c]
                ELSE c
\* str.upper()
Upper(s) == [i \in 1..Len(s) |-> UpperChar(s[i])]

\* s.startswith(p)
StartsWith(s, p) == Len(p) <= Len(s) /\ SubSeq(s, 1, Len(p)) = p

\* p in s
Contains(s, p) == \E i \in 1..(Len(s) - Len(p) + 1) : SubSeq(s, i, i + Len(p) - 1) = p

\* s.replace(',', '')
StripCommas(s) == SelectSeq(s, LAMBDA c : c # ",")

\* Mutant of Slice: nothing is cut
Slice_Whole(s, n) == s

\* s[:n]
Slice(s, n) == SubSeq(s, 1, IF Len(s) < n THEN Len(s) ELSE n)

\* s.split(c)
RECURSIVE Split(_, _)
Split(s, c) ==
    IF \A i \in 1..Len(s) : s[i] # c THEN <<s>>
    ELSE LET k == CHOOSE i \in 1..Len(s) : s[i] = c /\ \A j \in 1..(i - 1) : s[j] # c
         IN  <<SubSeq(s, 1, k - 1)>> \o Split(SubSeq(s, k + 1, Len(s)), c)

\* the description slice of STMTTRN(name=description[:32])
NameMax == 32

(***************************************************************************)
(* The two regular expressions                                             *)
(***************************************************************************)
\* re.search("^(\d{2})/(\d{2})", line)
DateRegex(line) ==
    /\ Len(line) >= 5
    /\ IsDigit(line[1]) /\ IsDigit(line[2])
    /\ line[3] = "/"
    /\ IsDigit(line[4]) /\ IsDigit(line[5])

\* re.match("^\d+,?\d+\.\d{2}$", line): the part before the point is two digit
\* runs, each of one digit or more, with at most one comma between them
AmountRegex(line) ==
    LET n == Len(line) IN
    /\ n >= 5
    /\ line[n - 2] = "." /\ IsDigit(line[n - 1]) /\ IsDigit(line[n])
    /\ LET p == SubSeq(line, 1, n - 3) IN
       /\ IsDigit(p[1]) /\ IsDigit(p[Len(p)])
       /\ \A i \in 1..Len(p) : IsDigit(p[i]) \/ p[i] = ","
       /\ Cardinality({i \in 1..Len(p) : p[i] = ","}) <= 1

\* float(line.replace(',', '')) of a line AmountRegex accepts, in cents
AmountCents(line) ==
    LET t == StripCommas(line)
        n == Len(t)
    IN  ParseNat(SubSeq(t, 1, n - 3)) * 100 + ParseNat(SubSeq(t, n - 1, n))

(***************************************************************************)
(* datetime                                                                *)
(***************************************************************************)
IsLeap(y) == (y % 4 = 0 /\ y % 100 # 0) \/ y % 400 = 0
DaysInMonth(y, m) == IF m = 2 THEN (IF IsLeap(y) THEN 29 ELSE 28)
                     ELSE IF m \in {4, 6, 9, 11} THEN 30 ELSE 31
\* datetime(year, month, day) raises ValueError unless this holds
ValidDate(y, m, d) == y >= 1 /\ m \in 1..12 /\ d >= 1 /\ d <= DaysInMonth(y, m)

MonthAbbr == << <<"J","A","N">>, <<"F","E","B">>, <<"M","A","R">>, <<"A","P","R">>,
                <<"M","A","Y">>, <<"J","U","N">>, <<"J","U","L">>, <<"A","U","G">>,
                <<"S","E","P">>, <<"O","C","T">>, <<"N","O","V">>, <<"D","E","C">> >>

\* datetime.strptime(s, '%b %d %Y'): NoDate stands for the ValueError.  The three
\* fields are taken to be separated by single spaces.
strptime(s) ==
    LET t == Split(s, " ") IN
    IF Len(t) # 3 THEN NoDate
    ELSE LET b == Upper(t[1])
             d == t[2]
             Y == t[3]
         IN  IF /\ \E i \in 1..12 : MonthAbbr[i] = b
                /\ Len(d) \in 1..2 /\ AllDigits(d)
                /\ Len(Y) = 4 /\ AllDigits(Y)
                /\ ValidDate(ParseNat(Y), CHOOSE i \in 1..12 : MonthAbbr[i] = b, ParseNat(d))
             THEN [year |-> ParseNat(Y),
                   month |-> CHOOSE i \in 1..12 : MonthAbbr[i] = b,
                   day |-> ParseNat(d)]
             ELSE NoDate

(***************************************************************************)
(* StatementPeriodBuilder.parse                                            *)
(***************************************************************************)
\* The result of a sub-parser: status names the exception raised, or "ok";
\* lines is the buffer it leaves.
StatementPeriodBuilder_parse(ls) ==
    IF ls = <<>>
    THEN [status |-> "IndexError", lines |-> ls, start_time |-> NoDate, end_time |-> NoDate]
    ELSE LET parts == Split(Head(ls), "-") IN
         IF Len(parts) # 2
         THEN [status |-> "ValueError", lines |-> Tail(ls), start_time |-> NoDate, end_time |-> NoDate]
         ELSE IF strptime(parts[1]) = NoDate \/ strptime(parts[2]) = NoDate
         THEN [status |-> "ValueError", lines |-> Tail(ls), start_time |-> NoDate, end_time |-> NoDate]
         ELSE [status |-> "ok", lines |-> Tail(ls),
               start_time |-> strptime(parts[1]), end_time |-> strptime(parts[2])]

(***************************************************************************)
(* StatementTransactionBuilder                                             *)
(***************************************************************************)
CreditKeywords == <<KW_DEPOSIT, KW_CREDIT, KW_REFUND>>
DebitKeywords == <<KW_ELECTRONIC_PMT, KW_PAY, KW_WITHDRAW, KW_DEBIT, KW_FEE, KW_CHARGE,
                   KW_PMT, KW_OVERDRAFT_PD>>

\* the loop over a keyword list: does any keyword occur in trntype_hint.upper()
MatchesAny(keywords, trntype_hint) ==
    \E i \in 1..Len(keywords) : Contains(Upper(trntype_hint), keywords[i])

\* Mutant of Classify: the processing_checks override is missing
Classify_NoOverride(trntype_hint, processing_checks) ==
    IF MatchesAny(CreditKeywords, trntype_hint) THEN "CREDIT"
    ELSE IF processing_checks \/ MatchesAny(DebitKeywords, trntype_hint) THEN "DEBIT"
    ELSE NoType

\* Mutant of Classify: the debit keywords are tried first
Classify_DebitFirst(trntype_hint, processing_checks) ==
    IF processing_checks \/ MatchesAny(DebitKeywords, trntype_hint) THEN "DEBIT"
    ELSE IF MatchesAny(CreditKeywords, trntype_hint) THEN "CREDIT"
    ELSE NoType

\* trntype after the credit loop, the processing_checks override and the debit loop
Classify(trntype_hint, processing_checks) ==
    LET credit == IF MatchesAny(CreditKeywords, trntype_hint) THEN "CREDIT" ELSE NoType
        checks == IF processing_checks THEN "DEBIT" ELSE credit
    IN  IF checks = NoType
        THEN (IF MatchesAny(DebitKeywords, trntype_hint) THEN "DEBIT" ELSE NoType)
        ELSE checks

\* Mutant of Unrecognized: an unrecognized hint is skipped like a deferred check
Unrecognized_Never(trntype_hint) == FALSE

\* if not trntype_hint.startswith('Check #'): raise ValueError
Unrecognized(trntype_hint) == ~StartsWith(trntype_hint, CHECK_MARK)

\* Mutant of EatTwo: one line is eaten
EatTwo_One(rest) == Tail(rest)

\* print(pop(lines)); print(pop(lines)): the buffer after the two lines of a skipped check
EatTwo(rest) == Tail(Tail(rest))

\* Mutant of InitialDescription: outside the checks section it starts with the hint
InitialDescription_Hint(trntype_hint, processing_checks) ==
    IF processing_checks THEN CHECK_LABEL \o trntype_hint ELSE trntype_hint

\* the description before the first line is appended
InitialDescription(trntype_hint, processing_checks) ==
    IF processing_checks THEN CHECK_LABEL \o trntype_hint ELSE <<>>

\* Mutant of Append1: the line is popped and dropped
Append1_Dropped(description, line) == description

\* description += " " + line
Append1(description, line) == description \o <<" ">> \o line

\* The while loop, entered with the line just popped; extra collects the lines appended.
RECURSIVE DescriptionLoop(_, _, _, _)
DescriptionLoop(ls, line, description, extra) ==
    IF AmountRegex(line)
    THEN [status |-> "ok", lines |-> ls, line |-> line,
          description |-> description, extra |-> extra]
    ELSE IF ls = <<>>
    THEN [status |-> "IndexError", lines |-> ls, line |-> line,
          description |-> Append1(description, line), extra |-> Append(extra, line)]
    ELSE DescriptionLoop(Tail(ls), Head(ls), Append1(description, line), Append(extra, line))

\* Mutant of FinalDescription: an empty description stays empty
FinalDescription_Empty(description, trntype_hint) == description

\* if not description: description = trntype_hint
FinalDescription(description, trntype_hint) ==
    IF description = <<>> THEN trntype_hint ELSE description

\* amount, in cents, after "if trntype == 'DEBIT': amount = -amount"
SignedAmount(trntype, line) ==
    IF trntype = "DEBIT" THEN 0 - AmountCents(line) ELSE AmountCents(line)

\* fitid: the date and the txn_type digit.  The cents field, abs(int(amount * 100)),
\* depends on binary rounding of the float and is left out.
fitid(txn_date, amount) ==
    [year |-> txn_date.year, month |-> txn_date.month, day |-> txn_date.day,
     txn_type |-> IF amount > 0 THEN 2 ELSE 1]

STMTTRN(trntype, txn_date, amount, description) ==
    [trntype |-> trntype, dtposted |-> txn_date, trnamt |-> amount,
     fitid |-> fitid(txn_date, amount), name |-> Slice(description, NameMax)]

NoTxn == [trntype |-> NoType, dtposted |-> NoDate, trnamt |-> 0,
          fitid |-> fitid(NoDate, 0), name |-> <<>>]

\* What a call that has not completed normally returns
Outcome(status, ls, trntype_hint, trntype) ==
    [status |-> status, lines |-> ls, txn |-> NoTxn, trntype_hint |-> trntype_hint,
     trntype |-> trntype, extra |-> <<>>, amount_line |-> <<>>]

\* StatementTransactionBuilder.parse: status is "STMTTRN" (a transaction is returned),
\* "None" (a deferred check) or the exception raised
StatementTransactionBuilder_parse(ls, txn_date, processing_checks) ==
    IF ls = <<>> THEN Outcome("IndexError", ls, <<>>, NoType)
    ELSE
    LET trntype_hint == Head(ls)
        rest == Tail(ls)
        trntype == Classify(trntype_hint, processing_checks)
    IN
    IF trntype = NoType
    THEN IF Unrecognized(trntype_hint)
         THEN Outcome("ValueError", rest, trntype_hint, trntype)
         ELSE IF Len(rest) < 2
         THEN Outcome("IndexError", <<>>, trntype_hint, trntype)
         ELSE Outcome("None", EatTwo(rest), trntype_hint, trntype)
    ELSE IF rest = <<>>
    THEN Outcome("IndexError", rest, trntype_hint, trntype)
    ELSE
    LET loop == DescriptionLoop(Tail(rest), Head(rest),
                                InitialDescription(trntype_hint, processing_checks), <<>>)
    IN
    IF loop.status # "ok"
    THEN [Outcome(loop.status, loop.lines, trntype_hint, trntype) EXCEPT !.extra = loop.extra]
    ELSE [status |-> "STMTTRN", lines |-> loop.lines,
          txn |-> STMTTRN(trntype, txn_date, SignedAmount(trntype, loop.line),
                          FinalDescription(loop.description, trntype_hint)),
          trntype_hint |-> trntype_hint, trntype |-> trntype,
          extra |-> loop.extra, amount_line |-> loop.line]

(***************************************************************************)
(* Inputs: what tokenize_pdf_statement returns, a list of non-empty lines. *)
(* An input is a preamble followed by at most MaxBlocks blocks, or such an *)
(* input of at most MaxCutBlocks blocks cut off after any line.            *)
(***************************************************************************)
MaxBlocks == 3
MaxCutBlocks == 1

Preambles == { <<>>, <<L_Title, HDR_PERIOD, L_PeriodDec, HDR_ACCOUNT, L_Account>> }

B_Deferred == <<L_Date0105, L_CheckRef, L_BankNote, L_Amt120>>
B_Check == <<L_Date0105, L_CheckNo, L_Amt120>>
B_Purchase == <<L_Date0314, L_DebitCard, L_Amazon, L_Seattle, L_Amt4599>>
B_Payroll == <<L_Date0106, L_Payroll, L_AmtZero>>
B_Refund == <<L_Date1220, L_FeeRefund, L_Amt5, HDR_INTEREST, HDR_ELECTRONIC,
              HDR_CHECKS_PAID, HDR_PERIOD, HDR_BEGINNING, L_Date0106, L_Amt1250>>
B_Balances == <<HDR_ENDING, L_Bal2, HDR_BEGINNING, L_Bal1>>

Blocks == { <<HDR_CHECKS_PAID>>, <<HDR_ELECTRONIC>>, <<HDR_DAILY>>,
            <<HDR_PERIOD, L_PeriodDec>>, <<HDR_PERIOD, L_PeriodMar>>,
            <<HDR_BALANCE, L_Bal1>>, <<HDR_BALANCE, L_Bal2>>,
            <<HDR_BEGINNING, L_Bal3>>, <<HDR_ENDING, L_Bal4>>,
            B_Deferred, B_Check, B_Purchase, B_Payroll, B_Refund, B_Balances }

RECURSIVE Compose(_)
Compose(k) == IF k = 0 THEN { <<>> }
              ELSE LET S == Compose(k - 1) IN S \cup { s \o b : s \in S, b \in Blocks }

Prefixes(x) == { SubSeq(x, 1, n) : n \in 0..Len(x) }

Inputs == { p \o s : p \in Preambles, s \in Compose(MaxBlocks) }
          \cup UNION { Prefixes(p \o s) : p \in Preambles, s \in Compose(MaxCutBlocks) }

(***************************************************************************)
(* State                                                                   *)
(***************************************************************************)
VARIABLES
    lines,                        \* the buffer, popped from the front
    pc,                           \* "load": the script has not called parse yet;
                                  \* "parse": in the while loop of OfxBuilder.parse;
                                  \* "parsed": parse has returned; "exit": the file is
                                  \* written; "failed": an exception has propagated
    processing_checks, rollover_year, done,      \* locals of OfxBuilder.parse
    statement_transactions,
    statement_start_date, statement_end_date,    \* fields of OfxBuilder
    account_number, year,
    starting_statement_balance, ending_statement_balance,
    ofx,                          \* self.ofx, the document
    error,                        \* the exception that ended the run, or "none"
    written,                      \* pdf2qbo.py has written the output file
    input,                        \* history: the list parse was called with
    last,                         \* history: the last pass of the loop
    hist                          \* history: how often self.year += 1 has run, how
                                  \* many "Statement Balance as of" headers were handled,
                                  \* and the last section header the loop has popped

vars == <<lines, pc, processing_checks, rollover_year, done, statement_transactions,
          statement_start_date, statement_end_date, account_number, year,
          starting_statement_balance, ending_statement_balance, ofx, error, written,
          input, last, hist>>

fields == <<statement_start_date, statement_end_date, account_number, year,
            starting_statement_balance, ending_statement_balance>>

NoOfx == [built |-> FALSE, balamt |-> None, dtasof |-> NoDate, acctid |-> None,
          dtstart |-> NoDate, dtend |-> NoDate, banktranlist |-> <<>>]

NoCall == Outcome("-", <<>>, <<>>, NoType)

\* history record of one pass of the loop: the branch taken, the line popped at the
\* top of the loop, the line popped after a header, the section flag the pass ended
\* with, how many lines the pass removed, the transaction list it started with and,
\* for a transaction start, the date built and what
\* StatementTransactionBuilder.parse returned
Pass(op, line, arg, checks, popped, before, txn_date, res) ==
    [op |-> op, line |-> line, arg |-> arg, checks |-> checks, popped |-> popped,
     before |-> before, txn_date |-> txn_date, res |-> res]

NoPass(op) == Pass(op, <<>>, <<>>, processing_checks, 0, statement_transactions, NoDate, NoCall)

Init ==
    /\ input \in Inputs
    /\ lines = input
    /\ pc = "parse"
    /\ processing_checks = FALSE
    /\ rollover_year = TRUE
    /\ done = FALSE
    /\ statement_transactions = <<>>
    /\ statement_start_date = NoDate
    /\ statement_end_date = NoDate
    /\ account_number = None
    /\ year = NoYear
    /\ starting_statement_balance = None
    /\ ending_statement_balance = None
    /\ ofx = NoOfx
    /\ error = "none"
    /\ written = FALSE
    /\ last = Pass("init", <<>>, <<>>, FALSE, 0, <<>>, NoDate, NoCall)
    /\ hist = [rollovers |-> 0, balance_headers |-> 0, section |-> "none"]

(***************************************************************************)
(* OfxBuilder.parse: the while loop                                        *)
(***************************************************************************)
\* Mutant of Looping: the loop does not test done
Looping_IgnoreDone == pc = "parse" /\ lines # <<>>

\* while len(lines) and not done
Looping == pc = "parse" /\ lines # <<>> /\ ~done

\* Mutant of SectionFlag: "Electronic Payments" does not end the checks section
SectionFlag_NoRevert(line, flag) ==
    IF StartsWith(line, HDR_CHECKS_PAID) THEN TRUE ELSE flag

\* the first if/elif of the loop body
SectionFlag(line, flag) ==
    IF StartsWith(line, HDR_CHECKS_PAID) THEN TRUE
    ELSE IF StartsWith(line, HDR_ELECTRONIC) THEN FALSE
    ELSE flag

\* the branch of the second if/elif chain a line takes
Branch(line) ==
    IF StartsWith(line, HDR_PERIOD) THEN "period"
    ELSE IF StartsWith(line, HDR_ACCOUNT) THEN "account"
    ELSE IF StartsWith(line, HDR_BALANCE) THEN "balance"
    ELSE IF StartsWith(line, HDR_BEGINNING) THEN "beginning"
    ELSE IF StartsWith(line, HDR_ENDING) THEN "ending"
    ELSE IF StartsWith(line, HDR_DAILY) \/ StartsWith(line, HDR_INTEREST) THEN "terminator"
    ELSE IF DateRegex(line) THEN "transaction"
    ELSE "ignored"

\* Mutant of Raise: the exception is swallowed and the loop goes on
Raise_Swallowed(exception, ls) ==
    /\ pc' = "parse"
    /\ error' = error
    /\ lines' = ls

\* an exception leaves parse: the buffer keeps what was popped so far
Raise(exception, ls) ==
    /\ pc' = "failed"
    /\ error' = exception
    /\ lines' = ls

\* Mutant of Continue: the pass leaves the buffer as it found it
Continue_NoPop(ls) ==
    /\ pc' = "parse"
    /\ error' = error
    /\ lines' = lines

\* the pass ends normally and the loop tests its condition again
Continue(ls) ==
    /\ pc' = "parse"
    /\ error' = error
    /\ lines' = ls

\* line = pop(lines) at the top of the loop body, and the branch the line takes
Popped(branch) == Looping /\ Branch(Head(lines)) = branch

\* what every pass does with the line it pops; the history is taken last, from the
\* buffer and the list the pass leaves
Pop(op, arg, txn_date, res) ==
    /\ processing_checks' = SectionFlag(Head(lines), processing_checks)
    /\ last' = Pass(op, Head(lines), arg, processing_checks', Len(lines) - Len(lines'),
                    statement_transactions, txn_date, res)
    /\ UNCHANGED <<ofx, written, input>>

\* a line that starts with "Checks Paid": the flag is set; no branch of the second
\* chain matches it and it is no date
ChecksPaid ==
    /\ Popped("ignored")
    /\ StartsWith(Head(lines), HDR_CHECKS_PAID)
    /\ Continue(Tail(lines))
    /\ hist' = [hist EXCEPT !.section = "checks"]
    /\ UNCHANGED <<rollover_year, done, statement_transactions, fields>>
    /\ Pop("checks_paid", <<>>, NoDate, NoCall)

ElectronicPayments ==
    /\ Popped("ignored")
    /\ ~StartsWith(Head(lines), HDR_CHECKS_PAID)
    /\ StartsWith(Head(lines), HDR_ELECTRONIC)
    /\ Continue(Tail(lines))
    /\ hist' = [hist EXCEPT !.section = "electronic"]
    /\ UNCHANGED <<rollover_year, done, statement_transactions, fields>>
    /\ Pop("electronic", <<>>, NoDate, NoCall)

\* no header and no date: the line is dropped
Ignored ==
    /\ Popped("ignored")
    /\ ~StartsWith(Head(lines), HDR_CHECKS_PAID)
    /\ ~StartsWith(Head(lines), HDR_ELECTRONIC)
    /\ Continue(Tail(lines))
    /\ UNCHANGED <<rollover_year, done, statement_transactions, fields, hist>>
    /\ Pop("ignored", <<>>, NoDate, NoCall)

\* line = pop(lines) after a header: the line, or <<>> when it raises IndexError
Arg == IF Tail(lines) = <<>> THEN <<>> ELSE Head(Tail(lines))

StatementPeriod ==
    /\ Popped("period")
    /\ LET r == StatementPeriodBuilder_parse(Tail(lines)) IN
       IF r.status = "ok"
       THEN /\ Continue(r.lines)
            /\ statement_start_date' = r.start_time
            /\ statement_end_date' = r.end_time
            /\ year' = r.start_time.year
       ELSE /\ Raise(r.status, r.lines)
            /\ UNCHANGED <<statement_start_date, statement_end_date, year>>
    /\ UNCHANGED <<rollover_year, done, statement_transactions, account_number,
                   starting_statement_balance, ending_statement_balance, hist>>
    /\ Pop("period", Arg, NoDate, NoCall)

PrimaryAccount ==
    /\ Popped("account")
    /\ IF Tail(lines) = <<>>
       THEN Raise("IndexError", <<>>) /\ UNCHANGED account_number
       ELSE Continue(Tail(Tail(lines))) /\ account_number' = Head(Tail(lines))
    /\ UNCHANGED <<rollover_year, done, statement_transactions, statement_start_date,
                   statement_end_date, year, starting_statement_balance,
                   ending_statement_balance, hist>>
    /\ Pop("account", Arg, NoDate, NoCall)

\* if self.starting_statement_balance: None and '' are both false
Truthy(s) == s # None /\ s # <<>>

StatementBalance ==
    /\ Popped("balance")
    /\ IF Tail(lines) = <<>>
       THEN /\ Raise("IndexError", <<>>)
            /\ UNCHANGED <<starting_statement_balance, ending_statement_balance>>
       ELSE /\ Continue(Tail(Tail(lines)))
            /\ IF Truthy(starting_statement_balance)
               THEN /\ ending_statement_balance' = StripCommas(Head(Tail(lines)))
                    /\ UNCHANGED starting_statement_balance
               ELSE /\ starting_statement_balance' = StripCommas(Head(Tail(lines)))
                    /\ UNCHANGED ending_statement_balance
    /\ hist' = [hist EXCEPT !.balance_headers = @ + 1]
    /\ UNCHANGED <<rollover_year, done, statement_transactions, statement_start_date,
                   statement_end_date, account_number, year>>
    /\ Pop("balance", Arg, NoDate, NoCall)

\* Mutant of BeginningBalance: the commas are kept
BeginningBalance_KeepCommas ==
    /\ Popped("beginning")
    /\ IF Tail(lines) = <<>>
       THEN Raise("IndexError", <<>>) /\ UNCHANGED starting_statement_balance
       ELSE /\ Continue(Tail(Tail(lines)))
            /\ starting_statement_balance' = Head(Tail(lines))
    /\ UNCHANGED <<rollover_year, done, statement_transactions, statement_start_date,
                   statement_end_date, account_number, year, ending_statement_balance,
                   hist>>
    /\ Pop("beginning", Arg, NoDate, NoCall)

BeginningBalance ==
    /\ Popped("beginning")
    /\ IF Tail(lines) = <<>>
       THEN Raise("IndexError", <<>>) /\ UNCHANGED starting_statement_balance
       ELSE /\ Continue(Tail(Tail(lines)))
            /\ starting_statement_balance' = StripCommas(Head(Tail(lines)))
    /\ UNCHANGED <<rollover_year, done, statement_transactions, statement_start_date,
                   statement_end_date, account_number, year, ending_statement_balance,
                   hist>>
    /\ Pop("beginning", Arg, NoDate, NoCall)

EndingBalance ==
    /\ Popped("ending")
    /\ IF Tail(lines) = <<>>
       THEN Raise("IndexError", <<>>) /\ UNCHANGED ending_statement_balance
       ELSE /\ Continue(Tail(Tail(lines)))
            /\ ending_statement_balance' = StripCommas(Head(Tail(lines)))
    /\ UNCHANGED <<rollover_year, done, statement_transactions, statement_start_date,
                   statement_end_date, account_number, year, starting_statement_balance,
                   hist>>
    /\ Pop("ending", Arg, NoDate, NoCall)

\* DAILY BALANCE SUMMARY or INTEREST SUMMARY
Terminator ==
    /\ Popped("terminator")
    /\ Continue(Tail(lines))
    /\ done' = TRUE
    /\ UNCHANGED <<rollover_year, statement_transactions, fields, hist>>
    /\ Pop("terminator", <<>>, NoDate, NoCall)

\* Mutant of Rollover: the start month is not tested
Rollover_AnyMonth(start_date, month, flag) == month = 1 /\ flag

\* if self.statement_start_date.month == 12 and month == 1 and rollover_year
Rollover(start_date, month, flag) == start_date.month = 12 /\ month = 1 /\ flag

\* Mutant of Unseeded: the start date is read without a period header
Unseeded_Never == FALSE

\* self.statement_start_date is still None when its month is asked for
Unseeded == statement_start_date = NoDate

\* if not statement_transaction is None: statement_transactions.append(...)
Collect(transactions, res) ==
    IF res.status = "STMTTRN" THEN Append(transactions, res.txn) ELSE transactions

\* a line that starts with MM/dd: the first line of a transaction
Transaction ==
    /\ Popped("transaction")
    /\ LET line == Head(lines)
           month == ParseNat(SubSeq(line, 1, 2))
           day == ParseNat(SubSeq(line, 4, 5))
           roll == Rollover(statement_start_date, month, rollover_year)
           y == IF roll THEN year + 1 ELSE year
           txn_date == [year |-> y, month |-> month, day |-> day]
           res == StatementTransactionBuilder_parse(Tail(lines), txn_date, processing_checks)
       IN
       IF Unseeded
       THEN \* None has no attribute month
            /\ Raise("AttributeError", Tail(lines))
            /\ UNCHANGED <<rollover_year, year, statement_transactions, hist>>
            /\ Pop("transaction", <<>>, NoDate, NoCall)
       ELSE /\ year' = y
            /\ rollover_year' = (rollover_year /\ ~roll)
            /\ hist' = [hist EXCEPT !.rollovers = IF roll THEN @ + 1 ELSE @]
            /\ IF ~ValidDate(y, month, day)
               THEN \* datetime(month=month, day=day, year=self.year) refuses the date
                    /\ Raise("ValueError", Tail(lines))
                    /\ UNCHANGED statement_transactions
                    /\ Pop("transaction", <<>>, NoDate, NoCall)
               ELSE /\ statement_transactions' = Collect(statement_transactions, res)
                    /\ IF res.status \in {"STMTTRN", "None"}
                       THEN Continue(res.lines)
                       ELSE Raise(res.status, res.lines)
                    /\ Pop("transaction", <<>>, txn_date, res)
    /\ UNCHANGED <<done, statement_start_date, statement_end_date, account_number,
                   starting_statement_balance, ending_statement_balance>>

(***************************************************************************)
(* OfxBuilder.parse: after the loop                                        *)
(***************************************************************************)
\* s.strip(), for spaces
RECURSIVE Strip(_)
Strip(s) == IF s # <<>> /\ s[1] = " " THEN Strip(Tail(s))
            ELSE IF s # <<>> /\ s[Len(s)] = " " THEN Strip(SubSeq(s, 1, Len(s) - 1))
            ELSE s

\* Decimal(s) accepts s: between spaces, an optional sign, digits, at most one point,
\* a digit at least (exponents and the special values do not occur in the inputs)
DecimalOk(s) ==
    LET u == Strip(s)
        t == IF u # <<>> /\ u[1] \in {"+", "-"} THEN Tail(u) ELSE u
    IN
    /\ \E i \in 1..Len(t) : IsDigit(t[i])
    /\ \A i \in 1..Len(t) : IsDigit(t[i]) \/ t[i] = "."
    /\ Cardinality({i \in 1..Len(t) : t[i] = "."}) <= 1

\* BANKACCTFROM.acctid is a String(22)
AcctIdMax == 22

\* Mutant of AssembleError: the prints fail only when both balances are None
AssembleError_And ==
    IF starting_statement_balance = None /\ ending_statement_balance = None THEN "TypeError"
    ELSE IF ~DecimalOk(ending_statement_balance) THEN "InvalidOperation"
    ELSE IF statement_end_date = NoDate \/ statement_start_date = NoDate THEN "ValueError"
    ELSE IF account_number = None \/ Len(account_number) > AcctIdMax THEN "ValueError"
    ELSE "none"

\* The exception the statements after the loop raise, or "none": the two prints
\* concatenate a str and the balance; Decimal parses the ending balance; the
\* ofxtools models refuse None for dtasof, acctid, dtstart and dtend
AssembleError ==
    IF starting_statement_balance = None \/ ending_statement_balance = None THEN "TypeError"
    ELSE IF ~DecimalOk(ending_statement_balance) THEN "InvalidOperation"
    ELSE IF statement_end_date = NoDate \/ statement_start_date = NoDate THEN "ValueError"
    ELSE IF account_number = None \/ Len(account_number) > AcctIdMax THEN "ValueError"
    ELSE "none"

Assemble ==
    /\ pc = "parse"
    /\ ~Looping
    /\ IF AssembleError = "none"
       THEN /\ ofx' = [built |-> TRUE, balamt |-> ending_statement_balance,
                       dtasof |-> statement_end_date, acctid |-> account_number,
                       dtstart |-> statement_start_date, dtend |-> statement_end_date,
                       banktranlist |-> statement_transactions]
            /\ pc' = "parsed"
            /\ error' = error
       ELSE /\ ofx' = ofx
            /\ pc' = "failed"
            /\ error' = AssembleError
    /\ last' = NoPass("assemble")
    /\ UNCHANGED <<hist, lines, processing_checks, rollover_year, done, statement_transactions,
                   fields, written, input>>

(***************************************************************************)
(* pdf2qbo.py: the output file is written once parse has returned          *)
(***************************************************************************)
WriteOutput ==
    /\ pc = "parsed"
    /\ written' = TRUE
    /\ pc' = "exit"
    /\ last' = NoPass("write")
    /\ UNCHANGED <<hist, lines, processing_checks, rollover_year, done, statement_transactions,
                   fields, ofx, error, input>>

Next ==
    \/ ChecksPaid
    \/ ElectronicPayments
    \/ Ignored
    \/ StatementPeriod
    \/ PrimaryAccount
    \/ StatementBalance
    \/ BeginningBalance
    \/ EndingBalance
    \/ Terminator
    \/ Transaction
    \/ Assemble
    \/ WriteOutput

Spec == Init /\ [][Next]_vars

(***************************************************************************)
(* The whole script, from the OfxBuilder just constructed: the statement   *)
(* is tokenized and parse is called with its lines.  The interpreter runs  *)
(* the program on: a step that can be taken is taken.                      *)
(***************************************************************************)
InitLoad ==
    /\ input = <<>>
    /\ lines = <<>>
    /\ pc = "load"
    /\ processing_checks = FALSE
    /\ rollover_year = TRUE
    /\ done = FALSE
    /\ statement_transactions = <<>>
    /\ statement_start_date = NoDate
    /\ statement_end_date = NoDate
    /\ account_number = None
    /\ year = NoYear
    /\ starting_statement_balance = None
    /\ ending_statement_balance = None
    /\ ofx = NoOfx
    /\ error = "none"
    /\ written = FALSE
    /\ last = Pass("init", <<>>, <<>>, FALSE, 0, <<>>, NoDate, NoCall)
    /\ hist = [rollovers |-> 0, balance_headers |-> 0, section |-> "none"]

\* lines = tokenize_pdf_statement(import_file_path); ofx.parse(lines)
Load ==
    /\ pc = "load"
    /\ input' \in Inputs
    /\ lines' = input'
    /\ pc' = "parse"
    /\ UNCHANGED <<processing_checks, rollover_year, done, statement_transactions, fields,
                   ofx, error, written, last, hist>>

NextLoad == Load \/ Next

\* a statement of the script is waiting to be run: every such state has a step
Running == pc \in {"load", "parse", "parsed"}

\* Weak fairness of NextLoad, the interpreter never pausing for ever before a
\* statement it can run: either the script is over again and again, or steps are
\* taken again and again.  It is WF_vars(NextLoad) with ENABLED <<NextLoad>>_vars
\* written as Running.
Progress == []<>(~Running) \/ []<><<NextLoad>>_vars

FairSpec == InitLoad /\ [][NextLoad]_vars /\ Progress

TypeOK ==
    /\ pc \in {"load", "parse", "parsed", "exit", "failed"}
    /\ processing_checks \in BOOLEAN /\ rollover_year \in BOOLEAN /\ done \in BOOLEAN
    /\ written \in BOOLEAN
    /\ error \in {"none", "IndexError", "ValueError", "AttributeError", "TypeError",
                  "InvalidOperation"}
    /\ (pc = "failed") = (error # "none")

(***************************************************************************)
(* Properties                                                              *)
(***************************************************************************)
\* the last pass started a transaction and StatementTransactionBuilder.parse was called
Called == last.op = "transaction" /\ last.res.status # "-"
\* ... and it got as far as popping the type hint
Hinted == Called /\ last.res.trntype_hint # <<>>
\* ... and it returned a transaction
Produced == Called /\ last.res.status = "STMTTRN"
\* the run is over
Halted == pc \in {"parsed", "exit", "failed"}
\* the preambles that hold a statement period
WithPeriod == Preambles \ { <<>> }

\* every line preceded by one space
RECURSIVE JoinSpaced(_)
JoinSpaced(ls) == IF ls = <<>> THEN <<>> ELSE <<" ">> \o Head(ls) \o JoinSpaced(Tail(ls))
\* the lines joined by single spaces
Join(ls) == IF ls = <<>> THEN <<>> ELSE Tail(JoinSpaced(ls))

\* the buffer is what is left of the input
Suffix == lines = SubSeq(input, Len(input) - Len(lines) + 1, Len(input))

\* the spec's multi-line example, after a statement period, run to the end
PurchaseExample == Halted /\ \E p \in WithPeriod : input = p \o B_Purchase
OnePurchase ==
    /\ Len(statement_transactions) = 1
    /\ statement_transactions[1].trntype = "DEBIT"
    /\ statement_transactions[1].trnamt = 0 - 4599

\* C1 as stated: outside the checks section, with one description line or more, the
\* description is the hint and the description lines joined by single spaces, cut to
\* 32 characters; the example gives one DEBIT of -45.99
C1_HintThenLines ==
    /\ (Produced /\ ~last.checks /\ last.res.extra # <<>>)
         => last.res.txn.name
              = Slice(Join(<<last.res.trntype_hint>> \o last.res.extra), NameMax)
    /\ PurchaseExample => OnePurchase

\* C1 amended: outside the checks section, with one description line or more, the
\* description is the description lines alone, each preceded by one space, cut to
\* 32 characters (the hint is not part of it); the example gives one DEBIT of
\* -45.99 described " AMAZON.COM SEATTLE WA"
C1_LinesOnly ==
    /\ (Produced /\ ~last.checks /\ last.res.extra # <<>>)
         => last.res.txn.name = Slice(JoinSpaced(last.res.extra), NameMax)
    /\ PurchaseExample
         => /\ OnePurchase
            /\ statement_transactions[1].name = JoinSpaced(<<L_Amazon, L_Seattle>>)

C1_Witness ==
    /\ PurchaseExample
    /\ Len(statement_transactions) = 1
    /\ statement_transactions[1].name = <<" ">> \o L_Amazon \o <<" ">> \o L_Seattle

\* C2 as stated: with a period that starts in December, a transaction dated in
\* January carries the start year plus one, and self.year += 1 runs at most once
C2_JanuaryNextYear ==
    /\ (Produced /\ statement_start_date.month = 12 /\ last.res.txn.dtposted.month = 1)
         => last.res.txn.dtposted.year = statement_start_date.year + 1
    /\ hist.rollovers <= 1

\* C3 as stated: a transaction is a DEBIT iff its amount is <= 0 and a CREDIT iff its
\* amount is > 0
C3_SignAgreesWithType ==
    \A i \in 1..Len(statement_transactions) :
        LET t == statement_transactions[i] IN
        /\ (t.trntype = "DEBIT") = (t.trnamt <= 0)
        /\ (t.trntype = "CREDIT") = (t.trnamt > 0)

\* C4 as stated: the first "Statement Balance as of" header handled sets the starting
\* balance to the next line without its commas, the second sets the ending balance
C4_FirstStartSecondEnd ==
    (last.op = "balance" /\ pc = "parse")
      => /\ hist.balance_headers = 1
              => starting_statement_balance = SelectSeq(last.arg, LAMBDA c : c # ",")
         /\ hist.balance_headers = 2
              => ending_statement_balance = SelectSeq(last.arg, LAMBDA c : c # ",")

\* the type hint of the last pass matches no credit keyword and no debit keyword
NoKeyword ==
    /\ ~MatchesAny(CreditKeywords, last.res.trntype_hint)
    /\ ~MatchesAny(DebitKeywords, last.res.trntype_hint)

\* outside the checks section, the last pass read a hint with no keyword that starts
\* with "Check #"
DeferredCase ==
    Hinted /\ ~last.checks /\ NoKeyword /\ StartsWith(last.res.trntype_hint, CHECK_MARK)

\* the last pass removed the date line, the hint and two more lines, returned no
\* transaction, raised nothing and left the list alone; the loop goes on with the
\* line after them
DeferredEffect ==
    /\ last.res.status = "None"
    /\ pc = "parse" /\ error = "none"
    /\ last.popped = 4
    /\ Suffix
    /\ statement_transactions = last.before

\* C5 as stated: in the deferred case the hint and two further lines are consumed,
\* nothing is returned, nothing is raised, the list is unchanged and the scan resumes
\* right after the two lines
C5_DeferredAlways == DeferredCase => DeferredEffect

\* C5 amended: so it is when at least two lines follow the hint; when fewer follow,
\* the second or first pop raises IndexError, the buffer is left empty and the list
\* is unchanged
C5_DeferredIfTwoFollow ==
    DeferredCase
      => IF Len(lines) + last.popped >= 4
         THEN DeferredEffect
         ELSE /\ pc = "failed" /\ error = "IndexError"
              /\ lines = <<>>
              /\ statement_transactions = last.before

C5_Witness ==
    /\ DeferredCase /\ DeferredEffect
    /\ lines # <<>>
    /\ last.before # <<>>

\* the spec's deferred-check example, after a statement period
DeferredExample == \E p \in WithPeriod : input = p \o B_Deferred \o <<HDR_CHECKS_PAID>> \o B_Check
\* one DEBIT of -120.00 described "Check # 103"
OneCheck ==
    /\ Len(statement_transactions) = 1
    /\ statement_transactions[1].trntype = "DEBIT"
    /\ statement_transactions[1].trnamt = 0 - 12000
    /\ statement_transactions[1].name = L_CheckRef
DeferredOutcome ==
    DeferredExample
      => /\ Len(lines) >= Len(B_Check) => statement_transactions = <<>>
         /\ lines = <<>> => OneCheck

\* C6 as stated: a transaction started in the checks section is a DEBIT whatever the
\* hint, and its description begins with "Check # " and the hint; the example yields
\* nothing before "Checks Paid" and one DEBIT of -120.00 "Check # 103" after it
C6_CheckLabelPrefix ==
    /\ (Produced /\ last.checks)
         => /\ last.res.txn.trntype = "DEBIT"
            /\ StartsWith(last.res.txn.name, CHECK_LABEL \o last.res.trntype_hint)
    /\ DeferredOutcome

\* C6 amended: ... is a DEBIT whatever the hint, and its description is "Check # ",
\* the hint and the description lines (each after one space), cut to 32 characters:
\* it begins with "Check # " and the hint when these have at most 32 characters, and
\* is a prefix of them otherwise; the example is as stated
C6_CheckLabelCut ==
    /\ (Produced /\ last.checks)
         => /\ last.res.txn.trntype = "DEBIT"
            /\ last.res.txn.name
                 = Slice(CHECK_LABEL \o last.res.trntype_hint \o JoinSpaced(last.res.extra),
                         NameMax)
            /\ IF Len(CHECK_LABEL) + Len(last.res.trntype_hint) <= NameMax
               THEN StartsWith(last.res.txn.name, CHECK_LABEL \o last.res.trntype_hint)
               ELSE StartsWith(CHECK_LABEL \o last.res.trntype_hint, last.res.txn.name)
    /\ DeferredOutcome

C6_Witness ==
    /\ DeferredExample /\ lines = <<>> /\ OneCheck
    /\ Produced /\ last.checks

\* C7: outside the checks section, a hint with no keyword that does not start with
\* "Check #" ends the run with ValueError: only the date line and the hint were
\* popped, the list is as it was, no document is built and no file is written; a
\* failed run takes no further step
C7_UnrecognizedIsFatal ==
    /\ (Hinted /\ ~last.checks /\ NoKeyword /\ ~StartsWith(last.res.trntype_hint, CHECK_MARK))
         => /\ pc = "failed" /\ error = "ValueError"
            /\ last.popped = 2
            /\ Suffix
            /\ statement_transactions = last.before
    /\ pc = "failed" => (~ofx.built /\ ~written /\ ~ENABLED Next)

C7_Witness ==
    /\ Hinted /\ ~last.checks /\ NoKeyword /\ ~StartsWith(last.res.trntype_hint, CHECK_MARK)
    /\ pc = "failed"
    /\ last.before # <<>>
    /\ lines # <<>>

\* C8: a popped line that starts with DAILY BALANCE SUMMARY or INTEREST SUMMARY sets
\* done, and once done is set no line is popped, no transaction is appended and the
\* period, account, balances, year and section flag stay as they are
C8_TerminatorStops ==
    /\ [](last.op = "terminator" => done)
    /\ [][done => UNCHANGED <<lines, statement_transactions, statement_start_date,
                              statement_end_date, account_number, year,
                              starting_statement_balance, ending_statement_balance,
                              processing_checks, rollover_year, done>>]_vars

C8_Witness == done /\ Halted /\ Len(lines) >= 2 /\ DateRegex(lines[1])

\* C9: a document is built only with both balances set, and when the loop ends with
\* one of them None the run fails and builds none
C9_BalancesRequired ==
    /\ ofx.built => (starting_statement_balance # None /\ ending_statement_balance # None)
    /\ (last.op = "assemble"
          /\ (starting_statement_balance = None \/ ending_statement_balance = None))
         => (pc = "failed" /\ error # "none" /\ ~ofx.built)

C9_Witness ==
    /\ last.op = "assemble" /\ pc = "failed"
    /\ starting_statement_balance = None /\ ending_statement_balance # None
    /\ statement_transactions # <<>>

\* C10: while the period's start month is not December the running year is the start
\* date's year, and every transaction built carries it, whatever its month
C10_NoRolloverUnlessDecember ==
    (statement_start_date # NoDate /\ statement_start_date.month # 12)
      => /\ year = statement_start_date.year
         /\ (last.op = "transaction" /\ last.txn_date # NoDate)
              => last.txn_date.year = statement_start_date.year
         /\ Produced => last.res.txn.dtposted.year = statement_start_date.year

C10_Witness ==
    /\ statement_start_date.month = 3
    /\ Produced /\ last.res.txn.dtposted.month = 1
    /\ last.res.txn.dtposted.year = statement_start_date.year
    /\ hist.rollovers = 1

\* the two style-B headers of the spec's example, in either order, after any preamble
StyleBOrders ==
    { p \o <<HDR_BEGINNING, L_Bal3, HDR_ENDING, L_Bal4>> : p \in Preambles }
    \cup { p \o <<HDR_ENDING, L_Bal4, HDR_BEGINNING, L_Bal3>> : p \in Preambles }

\* C11: a "Beginning Balance" header sets the starting balance and an "Ending
\* Balance" header the ending balance, each to the line that follows it without its
\* commas; the two headers of the example leave the same pair of balances in
\* either order
C11_StyleB ==
    /\ (last.op = "beginning" /\ last.arg # <<>>)
          => (error = "none" /\ starting_statement_balance = StripCommas(last.arg))
    /\ (last.op = "ending" /\ last.arg # <<>>)
          => (error = "none" /\ ending_statement_balance = StripCommas(last.arg))
    /\ (input \in StyleBOrders /\ lines = <<>>)
          => (starting_statement_balance = L_Bal3 /\ ending_statement_balance = L_Bal4)

\* "Ending Balance" before "Beginning Balance", both with commas in the amounts
C11_Witness ==
    /\ input = B_Balances /\ lines = <<>> /\ last.op = "beginning"
    /\ last.arg = L_Bal1 /\ "," \in { L_Bal1[i] : i \in 1..Len(L_Bal1) }
    /\ starting_statement_balance = <<"1", "2", "3", "4", ".", "5", "6">>
    /\ ending_statement_balance = <<"2", "3", "4", "5", ".", "6", "7">>

\* the description the Reassembler has built when it reaches the amount line
Untruncated(res, checks) ==
    IF checks THEN CHECK_LABEL \o res.trntype_hint \o JoinSpaced(res.extra)
    ELSE IF res.extra = <<>> THEN res.trntype_hint
    ELSE JoinSpaced(res.extra)

\* C12: the name of every transaction produced, in either section and with any
\* number of description lines, has at most 32 characters
C12_NameAtMost32 ==
    /\ \A i \in 1..Len(statement_transactions) :
          Len(statement_transactions[i].name) <= 32
    /\ \A i \in 1..Len(ofx.banktranlist) : Len(ofx.banktranlist[i].name) <= 32
    /\ Produced => Len(last.res.txn.name) <= 32

\* a description of more than 32 characters has been cut to 32, in the checks
\* section or outside it
C12_Witness ==
    /\ Produced
    /\ Len(last.res.extra) >= 2
    /\ Len(Untruncated(last.res, last.checks)) > 32
    /\ Len(last.res.txn.name) = 32
    /\ \E i \in 1..Len(statement_transactions) : statement_transactions[i] = last.res.txn

\* the pattern the spec describes: one or more digits, optionally grouped in
\* thousands by commas, a decimal point and exactly two fraction digits
NumericAmount(line) ==
    LET n == Len(line) IN
    /\ n >= 4
    /\ line[n - 2] = "." /\ IsDigit(line[n - 1]) /\ IsDigit(line[n])
    /\ LET p == SubSeq(line, 1, n - 3) IN
       /\ IsDigit(p[1])
       /\ \A i \in 1..Len(p) : IsDigit(p[i]) \/ p[i] = ","
       /\ \A i \in 1..Len(p) : p[i] = "," =>
             /\ i + 3 <= Len(p)
             /\ \A j \in (i + 1)..(i + 3) : IsDigit(p[j])
             /\ (i + 3 = Len(p) \/ p[i + 4] = ",")

\* C13 as stated: the description loop stops at the first popped line that is a
\* numeric amount ("5.00", "45.99", "120.00", "1,234.56"): no such line is appended
\* to the description, every line appended is no amount, and the line the
\* transaction takes its amount from is one
C13_StopsAtFirstAmount ==
    Called =>
      /\ \A i \in 1..Len(last.res.extra) : ~NumericAmount(last.res.extra[i])
      /\ Produced => NumericAmount(last.res.amount_line)

\* C14: outside the checks section a hint that contains a credit keyword, in any
\* case, is CREDIT even when it contains a debit keyword too, and a hint that
\* contains debit keywords only is DEBIT
C14_CreditBeforeDebit ==
    (Hinted /\ ~last.checks) =>
      LET hint == Upper(last.res.trntype_hint)
          credit == \E i \in 1..Len(CreditKeywords) : Contains(hint, CreditKeywords[i])
          debit == \E i \in 1..Len(DebitKeywords) : Contains(hint, DebitKeywords[i])
      IN  /\ credit => last.res.trntype = "CREDIT"
          /\ (debit /\ ~credit) => last.res.trntype = "DEBIT"
          /\ Produced => last.res.txn.trntype = last.res.trntype

\* "Atm Fee Refund", in mixed case, holds FEE and REFUND and comes out as a CREDIT
C14_Witness ==
    /\ Produced /\ ~last.checks
    /\ last.res.trntype_hint = L_FeeRefund
    /\ Upper(last.res.trntype_hint) # last.res.trntype_hint
    /\ Contains(Upper(last.res.trntype_hint), KW_FEE)
    /\ Contains(Upper(last.res.trntype_hint), KW_REFUND)
    /\ last.res.txn.trntype = "CREDIT"

\* the passes of the loop, as the history names them
ScannerOps == {"checks_paid", "electronic", "ignored", "period", "account", "balance",
               "beginning", "ending", "terminator", "transaction"}

\* C15: the section flag becomes true exactly when the loop pops a line that starts
\* with "Checks Paid" and false exactly when it pops one that starts with
\* "Electronic Payments", also after a checks section; every other pass and every
\* later step leaves it as it is; the flag the Reassembler is called with is true
\* iff the last of these two headers popped was "Checks Paid"
C15_SectionFlag ==
    /\ [](/\ processing_checks = (hist.section = "checks")
          /\ Called => (last.checks = (hist.section = "checks"))
          /\ last.op \in ScannerOps =>
                /\ (last.op = "checks_paid") = StartsWith(last.line, HDR_CHECKS_PAID)
                /\ (last.op = "electronic") = (/\ ~StartsWith(last.line, HDR_CHECKS_PAID)
                                               /\ StartsWith(last.line, HDR_ELECTRONIC))
                /\ last.op = "checks_paid" => processing_checks
                /\ last.op = "electronic" => ~processing_checks)
    /\ [][/\ last'.op \notin {"checks_paid", "electronic"}
             => processing_checks' = processing_checks
          /\ last'.op = "checks_paid" => processing_checks'
          /\ last'.op = "electronic" => ~processing_checks']_vars

\* after "Checks Paid" and then "Electronic Payments" a purchase is classified by
\* its keywords again and gets no check label
C15_Witness ==
    /\ \E p \in Preambles : input = p \o <<HDR_CHECKS_PAID, HDR_ELECTRONIC>> \o B_Purchase
    /\ Produced /\ ~last.checks /\ ~processing_checks /\ hist.section = "electronic"
    /\ last.res.txn.trntype = "DEBIT"
    /\ last.res.txn.name = JoinSpaced(<<L_Amazon, L_Seattle>>)

\* the lines the last pass has popped
Consumed == SubSeq(input, Len(input) - Len(lines) - last.popped + 1, Len(input) - Len(lines))

\* the last pass found the buffer empty where a line was expected: after a header,
\* for the type hint, for one of the two lines of a deferred check, or before any
\* amount line
AfterHeader ==
    last.op \in {"period", "account", "balance", "beginning", "ending"} /\ last.arg = <<>>
NoHint == Called /\ ~Hinted
CutDeferred ==
    /\ Hinted /\ last.res.trntype = NoType /\ StartsWith(last.res.trntype_hint, CHECK_MARK)
    /\ last.popped < 4
NoAmount ==
    /\ Hinted /\ last.res.trntype # NoType
    /\ \A i \in 3..Len(Consumed) : ~AmountRegex(Consumed[i])
Exhausted == AfterHeader \/ NoHint \/ CutDeferred \/ NoAmount

\* C16: when the buffer is exhausted while a line is still expected, IndexError
\* leaves OfxBuilder.parse, nothing runs after it, no document is built, no file
\* is written and the transaction list is the one the pass started with
C16_ExhaustionIsFatal ==
    /\ Suffix
    /\ Exhausted =>
         /\ pc = "failed" /\ error = "IndexError" /\ lines = <<>>
         /\ ~ofx.built /\ ~written
         /\ statement_transactions = last.before
         /\ ~ENABLED Next
    /\ error = "IndexError" => Exhausted

\* the buffer ran out in the description loop, after one description line or more
C16_Witness ==
    /\ NoAmount /\ Len(last.res.extra) >= 1 /\ last.popped = Len(last.res.extra) + 2
    /\ pc = "failed" /\ error = "IndexError" /\ ~ofx.built
    /\ statement_transactions = last.before

\* the line the loop popped last is a terminator header
AtTerminator ==
    /\ Len(lines) < Len(input)
    /\ LET line == input[Len(input) - Len(lines)]
       IN  StartsWith(line, HDR_DAILY) \/ StartsWith(line, HDR_INTEREST)

\* C17: for every input the loop of OfxBuilder.parse comes to an end, and only
\* because the buffer is empty, a terminator header was popped or an exception was
\* raised; every pass of the loop takes at least one line off the front of the
\* buffer, and the description loop one line per line it appends, so the buffer
\* shrinks with every step until the loop ends
C17_ScannerHalts ==
    /\ <>Halted
    /\ [](/\ ~Looping => (lines = <<>> \/ done \/ pc = "failed")
          /\ done => AtTerminator
          /\ Suffix
          /\ last.op \in ScannerOps => last.popped >= 1
          /\ Produced => last.popped = Len(last.res.extra) + 3
          /\ (Called /\ NoAmount) => last.popped = Len(last.res.extra) + 2)
    /\ [][Looping => (/\ Len(lines') < Len(lines)
                      /\ lines' = SubSeq(lines, Len(lines) - Len(lines') + 1, Len(lines))
                      /\ last'.op \in ScannerOps)]_vars

\* the loop has ended on an empty buffer, emptied by a transaction that popped its
\* date, its hint, two description lines or more and its amount
C17_Witness ==
    /\ ~Looping /\ pc = "parse" /\ ~done /\ lines = <<>>
    /\ Produced /\ Len(last.res.extra) >= 2 /\ last.popped = Len(last.res.extra) + 3
    /\ Len(input) > last.popped

\* the first 32 characters of a text
First32(s) == SubSeq(s, 1, IF Len(s) < 32 THEN Len(s) ELSE 32)

\* the Reassembler has returned a transaction and the amount line came right
\* after the type hint
NoExtraLines == Produced /\ last.res.extra = <<>>

\* C18 as stated: a transaction completed without description lines has the type
\* hint line itself, cut to 32 characters, as its description
C18_HintVerbatim ==
    NoExtraLines => last.res.txn.name = First32(last.res.trntype_hint)

\* C18: a transaction completed without description lines has as its description,
\* cut to 32 characters, the type hint line itself outside the checks section and
\* "Check # " followed by the type hint line in the checks section
C18_HintOrCheckLabel ==
    NoExtraLines =>
      /\ ~last.checks => last.res.txn.name = First32(last.res.trntype_hint)
      /\ last.checks => last.res.txn.name = First32(CHECK_LABEL \o last.res.trntype_hint)
      /\ statement_transactions = Append(last.before, last.res.txn)

\* outside the checks section the payroll deposit, with no description line, is
\* named by the first 32 characters of its hint
C18_Witness ==
    /\ NoExtraLines /\ ~last.checks
    /\ last.res.trntype_hint = L_Payroll
    /\ last.res.txn.name = SubSeq(L_Payroll, 1, 32)
    /\ statement_transactions[Len(statement_transactions)].name = SubSeq(L_Payroll, 1, 32)

\* how many of the lines start with a date
RECURSIVE DateLines(_)
DateLines(ls) ==
    IF ls = <<>> THEN 0
    ELSE (IF DateRegex(Head(ls)) THEN 1 ELSE 0) + DateLines(Tail(ls))

\* a line the loop of OfxBuilder.parse would act on, had it popped the line
ScannerLine(line) ==
    \/ StartsWith(line, HDR_CHECKS_PAID) \/ StartsWith(line, HDR_ELECTRONIC)
    \/ Branch(line) # "ignored"

\* C19: the lines the Reassembler pops are the type hint, then the lines it
\* appends to the description, none of them an amount line and each appended
\* whatever it starts with, then the amount line; the pass changes neither the
\* section flag nor done nor the period, the account or a balance, and adds one
\* transaction at most, so there are never more transactions than date lines
\* consumed (and there can be fewer)
C19_ConsumedNotScanned ==
    /\ [](/\ Produced =>
               /\ Consumed = <<last.line, last.res.trntype_hint>> \o last.res.extra
                                \o <<last.res.amount_line>>
               /\ \A i \in 1..Len(last.res.extra) : ~AmountRegex(last.res.extra[i])
               /\ last.res.txn.name = First32(Untruncated(last.res, last.checks))
               /\ statement_transactions = Append(last.before, last.res.txn)
          /\ (Called /\ NoAmount) =>
               Consumed = <<last.line, last.res.trntype_hint>> \o last.res.extra
          /\ Len(statement_transactions)
               <= DateLines(SubSeq(input, 1, Len(input) - Len(lines))))
    /\ [][last'.op = "transaction" =>
            /\ processing_checks' = processing_checks
            /\ done' = done
            /\ UNCHANGED <<statement_start_date, statement_end_date, account_number,
                           starting_statement_balance, ending_statement_balance>>
            /\ Len(statement_transactions') <= Len(statement_transactions) + 1]_vars

\* one transaction has swallowed a terminator, both section headers, a period
\* header, a balance header and a date line: nothing but its description shows it
C19_Witness ==
    /\ Produced /\ lines = <<>>
    /\ \E i \in 1..Len(last.res.extra) : StartsWith(last.res.extra[i], HDR_INTEREST)
    /\ \E i \in 1..Len(last.res.extra) : StartsWith(last.res.extra[i], HDR_CHECKS_PAID)
    /\ \E i \in 1..Len(last.res.extra) : StartsWith(last.res.extra[i], HDR_PERIOD)
    /\ \E i \in 1..Len(last.res.extra) : StartsWith(last.res.extra[i], HDR_BEGINNING)
    /\ \E i \in 1..Len(last.res.extra) : DateRegex(last.res.extra[i])
    /\ \A i \in 1..Len(last.res.extra) : ScannerLine(last.res.extra[i]) \/ i = 1
    /\ ~processing_checks /\ ~done /\ starting_statement_balance = None
    /\ Len(statement_transactions) = 1 /\ DateLines(input) = 2

\* C20: a date line popped by the loop before any "Statement Period:" header has
\* been handled ends the run with AttributeError, with the date line alone popped
\* and the Reassembler not called; so every transaction is dated in the year of a
\* parsed statement start date, or in the year after it
C20_NoPeriodNoTransaction ==
    /\ (last.op = "transaction" /\ statement_start_date = NoDate) =>
          /\ pc = "failed" /\ error = "AttributeError"
          /\ ~Called /\ last.popped = 1
          /\ statement_transactions = last.before
          /\ ~ofx.built /\ ~written
    /\ error = "AttributeError" => (last.op = "transaction" /\ statement_start_date = NoDate)
    /\ statement_start_date = NoDate => (year = NoYear /\ statement_transactions = <<>>)
    /\ \A i \in 1..Len(statement_transactions) :
          statement_transactions[i].dtposted.year # NoYear
    /\ Called =>
          /\ statement_start_date # NoDate
          /\ last.txn_date.year = year
          /\ year \in {statement_start_date.year, statement_start_date.year + 1}
    /\ Produced => last.res.txn.dtposted = last.txn_date

\* after a balance header, and with no period header yet, a date line has stopped
\* the run before its type hint was popped
C20_Witness ==
    /\ last.op = "transaction" /\ error = "AttributeError" /\ pc = "failed"
    /\ DateRegex(last.line) /\ last.popped = 1 /\ lines # <<>>
    /\ starting_statement_balance # None
    /\ statement_start_date = NoDate /\ statement_transactions = <<>>

=============================================================================
